---------------------------- MODULE Spec2Model ----------------------------
(***************************************************************************)
(* A model of the Sketch class of src/src/components/gui.ts: the frame     *)
(* clock, the pointer tracker, the pointer trail buffer, the uniform feed, *)
(* the render loop, the resize handler and the settings panel bindings.    *)
(*                                                                         *)
(* Numbers.  The pointer coordinates are rationals <<n, d>> in lowest      *)
(* terms; the inputs are integers and the rectangles have power-of-two     *)
(* sides, so every quotient is dyadic and the IEEE-754 double arithmetic   *)
(* of the code is exact on them.  FrameTime is an IEEE-754 double: a value *)
(* <<hi, lo>> stands for (hi * 2^30 + lo) * 2^-59, and an addition rounds  *)
(* its exact sum to 53 significant bits, ties to even, as the code's `+=`  *)
(* does.                                                                   *)
(***************************************************************************)
EXTENDS Integers, Sequences, FiniteSets, TLC

\* ------------------------------------------------------------------ bounds

\* Frames the main specification runs (the loop itself never stops).
MaxTicks == 7

\* Frames the trail specification runs: more than trailLength, so that a
\* recorded position travels through every slot and is discarded.
TrailTicks == 17

\* Frames the liveness specification runs.
LiveTicks == 4

\* Pointer-move events delivered in one run.
MaxMoves == 2

\* Tweens the panel's spin button starts in one run.
MaxSpins == 1

\* Largest client coordinate of a pointer event in the pointer specification.
MaxCoord == 5

\* ------------------------------------------------------- rational numbers

RECURSIVE Gcd(_, _)
Gcd(a, b) == IF b = 0 THEN a ELSE Gcd(b, a % b)

Abs(a) == IF a < 0 THEN -a ELSE a

\* The quotient a / b of two numbers of the run (b > 0), in lowest terms.
Quot(a, b) ==
    LET g == Gcd(Abs(a), b)
    IN  <<a \div g, b \div g>>

\* q * k, q + k and -q for a rational q and an integer k.
RTimes(q, k) == Quot(q[1] * k, q[2])

RPlus(q, k) == Quot(q[1] + k * q[2], q[2])

RNeg(q) == <<-q[1], q[2]>>

\* new THREE.Vector2(0, 0)
Origin == <<Quot(0, 1), Quot(0, 1)>>

\* ------------------------------------------------------ IEEE-754 doubles

\* The limb base of a double's representation: value = (hi*Limb + lo) * 2^-59.
Limb == 2 ^ 30

DblZero == <<0, 0>>

\* The double nearest to 0.01: 5764607523034235 * 2^-59.
TimeStep == <<5368709, 128849019>>

\* Number of bits of n >= 0 (0 for n = 0).
RECURSIVE BitLen(_)
BitLen(n) == IF n = 0 THEN 0 ELSE 1 + BitLen(n \div 2)

\* The exact sum of two representations, limbs normalised.
ExactAdd(a, b) ==
    LET lo == a[2] + b[2]
    IN  <<a[1] + b[1] + (lo \div Limb), lo % Limb>>

\* Bits an exact value has beyond the 53 of a double's significand.
ExtraBits(x) == IF x[1] = 0 THEN 0 ELSE BitLen(x[1]) + 30 - 53

\* Round to nearest, ties to even: the double an exact value is stored as.
RoundDbl(x) ==
    LET d == ExtraBits(x)
    IN  IF d <= 0 THEN x
        ELSE
            LET unit == 2 ^ d
                rem  == x[2] % unit
                keep == x[2] - rem
                odd  == IF d < 30 THEN (x[2] \div unit) % 2 = 1 ELSE x[1] % 2 = 1
                up   == rem * 2 > unit \/ (rem * 2 = unit /\ odd)
            IN  IF up THEN ExactAdd(<<x[1], keep>>, <<0, unit>>) ELSE <<x[1], keep>>

\* a + b as the code computes it.
DblAdd(a, b) == RoundDbl(ExactAdd(a, b))

\* k * a computed exactly (no rounding): the real number k times a, for a
\* small natural k.  The low limb is multiplied in two halves of 15 bits.
ExactTimes(k, a) ==
    LET half == 2 ^ 15
        top  == (a[2] \div half) * k
        lo   == (top % half) * half + (a[2] % half) * k
    IN  <<a[1] * k + (top \div half) + (lo \div Limb), lo % Limb>>

\* k * a as one double multiplication computes it.
DblTimes(k, a) == RoundDbl(ExactTimes(k, a))

\* a - b in units of 2^-59, saturating at one limb either way.
UnitsApart(a, b) ==
    IF a[1] - b[1] > 1 THEN Limb
    ELSE IF a[1] - b[1] < -1 THEN -Limb
    ELSE (a[1] - b[1]) * Limb + (a[2] - b[2])

\* One unit in the last place of a double, in units of 2^-59.
Ulp(x) == IF ExtraBits(x) <= 0 THEN 1 ELSE 2 ^ ExtraBits(x)

DblLeq(a, b) == a[1] < b[1] \/ (a[1] = b[1] /\ a[2] <= b[2])

\* ------------------------------------------------------------ the program

\* this.trailLength = 15
trailLength == 15

\* The viewport sizes of the run: window.innerWidth, window.innerHeight.
Viewports == {[innerWidth |-> 4, innerHeight |-> 2], [innerWidth |-> 2, innerHeight |-> 2]}

\* The viewport when the module is loaded.
InitialViewport == [innerWidth |-> 4, innerHeight |-> 2]

\* canvas.getBoundingClientRect() in the main specification.
CanvasRect == [left |-> 0, top |-> 0, width |-> 4, height |-> 2]

\* Pointer events of the main specification: the rectangle's top-left and
\* bottom-right corners.
CornerEvents == {[clientX |-> 0, clientY |-> 0], [clientX |-> 4, clientY |-> 2]}

\* Rectangles and events of the pointer specification.
PointerRects == {[left |-> 0, top |-> 0, width |-> 4, height |-> 4], [left |-> 1, top |-> 1, width |-> 2, height |-> 4]}

PointerEvents == [clientX : 0..MaxCoord, clientY : 0..MaxCoord]

\* Colour strings '#rrggbb' as their six hexadecimal digits.
Green == <<0, 0, 8, 0, 0, 0>>

Red == <<15, 15, 0, 0, 0, 0>>

PanelColors == {Green, Red}

\* THREE.Color.set('#rrggbb'): the three channel bytes of a colour string.
ParseColor(hex) == <<hex[1] * 16 + hex[2], hex[3] * 16 + hex[4], hex[5] * 16 + hex[6]>>

\* new THREE.Color(1, 1, 1), as channel bytes.
White == <<255, 255, 255>>

VARIABLES
    pc,             \* "constructed": fields set, init() not yet run; "running"
    time,           \* this.time, a double
    mousePosition,  \* this.mousePosition
    pointerTrail,   \* this.pointerTrail, slots 0 .. trailLength-1
    planeMesh,      \* this.planeMesh: <<>> while undefined, else <<[uniforms]>>
    window,         \* the host's viewport
    device,         \* the module-level device record
    camera,         \* this.camera: its aspect ratio
    renderer,       \* this.renderer: its output size
    settings,       \* the module-level settings record
    ambientLight,   \* this.ambientLight: <<>> while undefined, else <<[color]>>
    tweens,         \* tweens gsap has started on mesh.rotation
    controllers,    \* the <<object, property>> pairs bound in the panel
    listeners,      \* how many listeners are registered per event name
    rafPending,     \* frame callbacks the host holds
    frameLog,       \* the calls of the latest execution of render(), in order
    drawn,          \* what the latest renderer.render() call read: <<>> or <<[..]>>
    ticks,          \* history: executions of render()
    moves,          \* history: mousemove events handled
    lastEvent,      \* history: <<>> or <<[event, rect]>> of the latest mousemove
    recorded,       \* history: the pointer values some tick read
    overwritten,    \* history: pointer values replaced before any tick read them
    curSampled      \* history: whether a tick has read the current pointer value

vars == <<pc, time, mousePosition, pointerTrail, planeMesh, window, device, camera,
          renderer, settings, ambientLight, tweens, controllers, listeners, rafPending,
          frameLog, drawn, ticks, moves, lastEvent, recorded, overwritten,
          curSampled>>

\* The program's state as one record, which the handlers below transform.
Sketch ==
    [pc |-> pc, time |-> time, mousePosition |-> mousePosition,
     pointerTrail |-> pointerTrail, planeMesh |-> planeMesh, window |-> window,
     device |-> device, camera |-> camera, renderer |-> renderer,
     settings |-> settings, ambientLight |-> ambientLight, tweens |-> tweens,
     controllers |-> controllers, listeners |-> listeners,
     rafPending |-> rafPending, frameLog |-> frameLog, drawn |-> drawn,
     ticks |-> ticks, moves |-> moves, lastEvent |-> lastEvent,
     recorded |-> recorded, overwritten |-> overwritten, curSampled |-> curSampled]

\* The next state is the record s.
Becomes(s) ==
    \E t \in {s} :
        /\ pc' = t.pc
        /\ time' = t.time
        /\ mousePosition' = t.mousePosition
        /\ pointerTrail' = t.pointerTrail
        /\ planeMesh' = t.planeMesh
        /\ window' = t.window
        /\ device' = t.device
        /\ camera' = t.camera
        /\ renderer' = t.renderer
        /\ settings' = t.settings
        /\ ambientLight' = t.ambientLight
        /\ tweens' = t.tweens
        /\ controllers' = t.controllers
        /\ listeners' = t.listeners
        /\ rafPending' = t.rafPending
        /\ frameLog' = t.frameLog
        /\ drawn' = t.drawn
        /\ ticks' = t.ticks
        /\ moves' = t.moves
        /\ lastEvent' = t.lastEvent
        /\ recorded' = t.recorded
        /\ overwritten' = t.overwritten
        /\ curSampled' = t.curSampled

\* The constructor up to its call of init(), with the module-level records.
Init ==
    /\ pc = "constructed"
    /\ time = DblZero
    /\ mousePosition = Origin
    /\ pointerTrail = [i \in 0..(trailLength - 1) |-> Origin]
    /\ planeMesh = <<>>
    /\ window = InitialViewport
    /\ device = [width |-> InitialViewport.innerWidth, height |-> InitialViewport.innerHeight]
    /\ camera = [aspect |-> Quot(InitialViewport.innerWidth, InitialViewport.innerHeight)]
    /\ renderer = [size |-> <<InitialViewport.innerWidth, InitialViewport.innerHeight>>]
    /\ settings = [color |-> Green, ambientLightColor |-> Green, subdivisions |-> 1, spin |-> "noop"]
    /\ ambientLight = <<>>
    /\ tweens = 0
    /\ controllers = {}
    /\ listeners = [resize |-> 0, mousemove |-> 0]
    /\ rafPending = 0
    /\ frameLog = <<>>
    /\ drawn = <<>>
    /\ ticks = 0
    /\ moves = 0
    /\ lastEvent = <<>>
    /\ recorded = {}
    /\ overwritten = {}
    /\ curSampled = FALSE

\* The state after Step has run on the state s: one statement following another.
Then(s, Step(_)) == CHOOSE r \in {Step(t) : t \in {s}} : TRUE

\* One more call in the log of the running render().
Logged(s, call) == [s EXCEPT !.frameLog = Append(@, call)]

\* this.stats?.begin() and this.stats?.end(): the statistics panel only.
statsBegin(s) == Logged(s, "stats.begin")

statsEnd(s) == Logged(s, "stats.end")

\* An assignment in place of the compound assignment: this.time = 0.01
advanceTimeAssigned(s) == Logged([s EXCEPT !.time = TimeStep], "time")

\* this.time += 0.01
advanceTime(s) == Logged([s EXCEPT !.time = DblAdd(@, TimeStep)], "time")

\* The loop of updatePointerTrail from slot i down to slot 1.
RECURSIVE ShiftDown(_, _)
ShiftDown(trail, i) ==
    IF i > 0
    THEN ShiftDown(Then(trail, LAMBDA t : [t EXCEPT ![i] = t[i - 1]]), i - 1)
    ELSE trail

\* A loop that runs upwards instead: slot 0 floods the buffer.
RECURSIVE ShiftUp(_, _, _)
ShiftUp(trail, i, n) ==
    IF i < n
    THEN ShiftUp(Then(trail, LAMBDA t : [t EXCEPT ![i] = t[i - 1]]), i + 1, n)
    ELSE trail

updatePointerTrailAscending(s) ==
    Logged([s EXCEPT !.pointerTrail =
                [ShiftUp(@, 1, trailLength) EXCEPT ![0] = s.mousePosition]], "trail")

\* An unshift without the matching pop: the buffer grows by one slot.
updatePointerTrailGrowing(s) ==
    Logged([s EXCEPT !.pointerTrail =
                [i \in 0..Cardinality(DOMAIN @) |->
                    IF i = 0 THEN s.mousePosition ELSE @[i - 1]]], "trail")

\* updatePointerTrail(): shift, then copy the pointer value into slot 0.
updatePointerTrail(s) ==
    Logged([s EXCEPT !.pointerTrail =
                [ShiftDown(@, trailLength - 1) EXCEPT ![0] = s.mousePosition]], "trail")

\* this.planeMesh!.material.uniforms.time.value = this.time
writeUniforms(s) ==
    Logged([s EXCEPT !.planeMesh[1].uniforms.time = s.time], "uniforms")

\* this.controls.update(): no damping and no auto-rotation are configured.
controlsUpdate(s) == Logged(s, "controls")

\* The value a uniform holds: uPointerTrail holds the array this.pointerTrail
\* itself, not a copy of it.
UniformValue(s, name) ==
    IF name = "uPointerTrail" THEN s.pointerTrail ELSE s.planeMesh[1].uniforms[name]

\* this.renderer.render(this.scene, this.camera): the draw reads the uniforms,
\* the camera and the lights as they are now.
rendererRender(s) ==
    Logged([s EXCEPT !.drawn =
                <<[time |-> UniformValue(s, "time"),
                   uPointerTrail |-> UniformValue(s, "uPointerTrail"),
                   aspect |-> s.camera.aspect,
                   size |-> s.renderer.size,
                   ambient |-> s.ambientLight[1].color]>>], "render")

\* A frame that never asks for the next one.
requestAnimationFrameDropped(s) == Logged(s, "raf")

\* requestAnimationFrame(this.render.bind(this))
requestAnimationFrame(s) == Logged([s EXCEPT !.rafPending = @ + 1], "raf")

\* The history of one execution of render().
Sampled(s) ==
    [s EXCEPT !.ticks = @ + 1, !.recorded = @ \cup {s.mousePosition},
              !.curSampled = TRUE, !.frameLog = <<>>]

\* A frame that draws before it advances the trail.
renderDrawsFirst(s) ==
    Then(Then(Then(Then(Then(Then(Then(Then(Then(s,
        Sampled), statsBegin), advanceTime), rendererRender), updatePointerTrail),
        writeUniforms), controlsUpdate), statsEnd), requestAnimationFrame)

\* A frame that updates the controls before it writes the uniforms.
renderControlsFirst(s) ==
    Then(Then(Then(Then(Then(Then(Then(Then(Then(s,
        Sampled), statsBegin), advanceTime), updatePointerTrail), controlsUpdate),
        writeUniforms), rendererRender), statsEnd), requestAnimationFrame)

\* render(): the statements of its body, in their order.
render(s) ==
    Then(Then(Then(Then(Then(Then(Then(Then(Then(s,
        Sampled), statsBegin), advanceTime), updatePointerTrail), writeUniforms),
        controlsUpdate), rendererRender), statsEnd), requestAnimationFrame)

\* addLights(): the ambient light starts white.
addLights(s) == [s EXCEPT !.ambientLight = <<[color |-> White]>>]

\* addHelpers(): the panel's bindings, and the spin action stored in settings.
addHelpers(s) ==
    [s EXCEPT !.settings.spin = "spinMesh",
              !.controllers = {<<"mesh.position", "y">>, <<"mesh", "visible">>,
                               <<"settings", "spin">>,
                               <<"settings", "ambientLightColor">>,
                               <<"ambientLight", "intensity">>}]

\* The uniforms object of addGeometry(), shared by both materials, and the
\* plane mesh; uPointerTrail refers to the array this.pointerTrail.
createPlane(s) ==
    [s EXCEPT !.planeMesh =
        <<[uniforms |-> [time |-> DblZero,
                         uResolution |-> <<s.device.width, s.device.height>>,
                         uPointerTrail |-> "this.pointerTrail"]]>>]

\* addGeometry()
addGeometry(s) == Then(Then(Then(s, createPlane), addLights), addHelpers)

\* resize(): window.addEventListener('resize', ...)
resize(s) == [s EXCEPT !.listeners.resize = @ + 1]

\* createMouseTracker(): canvas.addEventListener('mousemove', ...)
createMouseTracker(s) == [s EXCEPT !.listeners.mousemove = @ + 1]

\* init()
init(s) == Then(Then(Then(Then(s, addGeometry), resize), render), createMouseTracker)

\* A handler that forgets the rectangle's offset.
NormalizedPointerNoOffset(event, rect) ==
    <<RPlus(RTimes(Quot(event.clientX, rect.width), 2), -1),
      RPlus(RTimes(RNeg(Quot(event.clientY, rect.height)), 2), 1)>>

\* The two assignments of the mousemove handler.
NormalizedPointer(event, rect) ==
    <<RPlus(RTimes(Quot(event.clientX - rect.left, rect.width), 2), -1),
      RPlus(RTimes(RNeg(Quot(event.clientY - rect.top, rect.height)), 2), 1)>>

\* The history of one mousemove event.
Moved(s, event, rect) ==
    [s EXCEPT !.moves = @ + 1, !.lastEvent = <<[event |-> event, rect |-> rect]>>,
              !.overwritten = IF s.curSampled THEN @ ELSE @ \cup {s.mousePosition},
              !.curSampled = FALSE]

\* A handler whose pointer value is also slot 0 of the trail.
onMouseMoveShared(s, event, rect) ==
    [Moved(s, event, rect) EXCEPT !.mousePosition = NormalizedPointer(event, rect),
                                  !.pointerTrail[0] = NormalizedPointer(event, rect)]

\* The mousemove handler.
onMouseMove(s, event, rect) ==
    [Moved(s, event, rect) EXCEPT !.mousePosition = NormalizedPointer(event, rect)]

\* A handler that computes the aspect ratio upside down.
onResizeInverted(s) ==
    [s EXCEPT !.device = [width |-> s.window.innerWidth, height |-> s.window.innerHeight],
              !.camera.aspect = Quot(s.window.innerHeight, s.window.innerWidth),
              !.renderer.size = <<s.window.innerWidth, s.window.innerHeight>>]

\* onResize()
onResize(s) ==
    LET d == [width |-> s.window.innerWidth, height |-> s.window.innerHeight]
    IN  [s EXCEPT !.device = d,
                  !.camera.aspect = Quot(d.width, d.height),
                  !.renderer.size = <<d.width, d.height>>]

\* The colour controller: it stores the picked colour in settings and then
\* calls the onChange callback.
onAmbientLightColor(s, hex) ==
    LET t == [s EXCEPT !.settings.ambientLightColor = hex]
    IN  [t EXCEPT !.ambientLight[1].color = ParseColor(t.settings.ambientLightColor)]

\* The spin controller calls settings.spin(), which starts one tween.
onSpin(s) == IF s.settings.spin = "spinMesh" THEN [s EXCEPT !.tweens = @ + 1] ELSE s

\* ------------------------------------------------------------ the actions

\* The constructor calls init().
Construct ==
    /\ pc = "constructed"
    /\ Becomes([init(Sketch) EXCEPT !.pc = "running"])

\* The host runs a pending frame callback.
Frame(maxTicks) ==
    /\ pc = "running"
    /\ rafPending > 0
    /\ ticks < maxTicks
    /\ Becomes(render([Sketch EXCEPT !.rafPending = @ - 1]))

\* The host delivers a mousemove event to the canvas.
MouseMove(events, rects) ==
    /\ listeners.mousemove > 0
    /\ moves < MaxMoves
    /\ \E event \in events, rect \in rects : Becomes(onMouseMove(Sketch, event, rect))

\* The host resizes the viewport and delivers a resize event.
Resize ==
    /\ listeners.resize > 0
    /\ \E v \in Viewports : Becomes(onResize([Sketch EXCEPT !.window = v]))

\* The user picks an ambient light colour in the panel.
PanelAmbientLightColor ==
    /\ <<"settings", "ambientLightColor">> \in controllers
    /\ \E hex \in PanelColors : Becomes(onAmbientLightColor(Sketch, hex))

\* The user clicks the panel's spin button.
PanelSpin ==
    /\ <<"settings", "spin">> \in controllers
    /\ tweens < MaxSpins
    /\ Becomes(onSpin(Sketch))

Next ==
    \/ Construct
    \/ Frame(MaxTicks)
    \/ MouseMove(CornerEvents, {CanvasRect})
    \/ Resize
    \/ PanelAmbientLightColor
    \/ PanelSpin

\* The whole program, for MaxTicks frames.
Spec == Init /\ [][Next]_vars

LiveNext ==
    \/ Construct
    \/ Frame(LiveTicks)
    \/ MouseMove(CornerEvents, {CanvasRect})
    \/ Resize
    \/ PanelAmbientLightColor
    \/ PanelSpin

\* The whole program for LiveTicks frames, under a host that always eventually
\* runs a pending frame callback.
LiveSpec == Init /\ [][LiveNext]_vars /\ WF_vars(Frame(LiveTicks))

TrailNext ==
    \/ Construct
    \/ Frame(TrailTicks)
    \/ MouseMove(CornerEvents, {CanvasRect})

\* The frame loop and the pointer alone, for TrailTicks frames.
TrailSpec == Init /\ [][TrailNext]_vars

PointerNext ==
    \/ Construct
    \/ MouseMove(PointerEvents, PointerRects)

\* The pointer tracker alone, over every event and rectangle of the bounds.
PointerSpec == Init /\ [][PointerNext]_vars

\* -------------------------------------------------------------- the claims

Slots == 0..(trailLength - 1)

TopLeft == <<Quot(-1, 1), Quot(1, 1)>>

BottomRight == <<Quot(1, 1), Quot(-1, 1)>>

\* C1: one execution of updatePointerTrail leaves slot 0 equal to the current
\* pointer value and every slot i >= 1 equal to what slot i-1 held before it;
\* the buffer keeps its slots, so the old value of the last slot is dropped.
C1_AdvanceShifts ==
    [][ticks' # ticks =>
        /\ DOMAIN pointerTrail' = Slots
        /\ pointerTrail'[0] = mousePosition
        /\ \A i \in Slots \ {0} : pointerTrail'[i] = pointerTrail[i - 1]]_vars

\* A recorded corner has reached the last slot, behind a different newest value.
C1_Witness ==
    /\ ticks > trailLength
    /\ pointerTrail[trailLength - 1] # Origin
    /\ pointerTrail[0] # pointerTrail[trailLength - 1]
    /\ pointerTrail[0] = mousePosition

\* C2: in every reachable state the trail buffer has exactly trailLength slots,
\* numbered 0 .. trailLength-1.
C2_TrailLength ==
    /\ DOMAIN pointerTrail = Slots
    /\ Cardinality(DOMAIN pointerTrail) = trailLength

\* Frames, pointer moves and a resize have all happened.
C2_Witness ==
    /\ ticks >= 3
    /\ moves >= 2
    /\ device.width # InitialViewport.innerWidth
    /\ pointerTrail[0] # Origin
    /\ pointerTrail[1] # pointerTrail[0]

\* C3: after a mousemove event the pointer value is
\* ((clientX - left) / width * 2 - 1, -((clientY - top) / height) * 2 + 1):
\* (0, 0) at the rectangle's centre, (-1, 1) at its top-left corner and
\* (1, -1) at its bottom-right corner.
C3_Normalized ==
    Len(lastEvent) = 1 =>
        LET r  == lastEvent[1].rect
            dx == lastEvent[1].event.clientX - r.left
            dy == lastEvent[1].event.clientY - r.top
            x  == mousePosition[1]
            y  == mousePosition[2]
        IN  /\ x[2] > 0 /\ y[2] > 0
            /\ x[1] * r.width = x[2] * (2 * dx - r.width)
            /\ y[1] * r.height = y[2] * (r.height - 2 * dy)
            /\ (2 * dx = r.width /\ 2 * dy = r.height) => mousePosition = Origin
            /\ (dx = 0 /\ dy = 0) => mousePosition = TopLeft
            /\ (dx = r.width /\ dy = r.height) => mousePosition = BottomRight

\* The latest event was at the bottom-right corner of a rectangle that does not
\* start at the client origin, after an event elsewhere.
C3_Witness ==
    /\ Len(lastEvent) = 1
    /\ lastEvent[1].rect.left > 0
    /\ lastEvent[1].event.clientX = lastEvent[1].rect.left + lastEvent[1].rect.width
    /\ lastEvent[1].event.clientY = lastEvent[1].rect.top + lastEvent[1].rect.height
    /\ mousePosition = BottomRight
    /\ overwritten # {}

\* C4 as stated: after k executions of render, FrameTime equals k times 0.01.
C4_ExactMultiple == time = DblTimes(ticks, TimeStep)

\* C4 as amended: FrameTime starts at 0; each execution of render, and nothing
\* else, replaces it by the double sum FrameTime + 0.01, which is larger; after
\* k executions it is within k units in the last place of k times 0.01.
C4_WithinTolerance ==
    /\ [](pc = "constructed" => time = DblZero /\ ticks = 0)
    /\ [](Abs(UnitsApart(time, DblTimes(ticks, TimeStep))) <= ticks * Ulp(time))
    /\ [][ticks' # ticks => ticks' = ticks + 1 /\ time' = DblAdd(time, TimeStep)]_vars
    /\ [][time' # time => ticks' # ticks /\ DblLeq(time, time')]_vars

\* Six or more frames, with pointer, resize and panel events among them, have
\* left FrameTime off the exact multiple.
C4_Witness ==
    /\ ticks >= 6
    /\ time # DblTimes(ticks, TimeStep)
    /\ moves > 0
    /\ tweens > 0
    /\ device.width # InitialViewport.innerWidth

\* C5: a resize event sets the camera's aspect ratio to width / height of the
\* new viewport and the renderer's size to that viewport, and leaves FrameTime,
\* the pointer value and the trail buffer as they were.
C5_Resize ==
    [][Resize =>
        /\ camera'.aspect[1] * window'.innerHeight = camera'.aspect[2] * window'.innerWidth
        /\ camera'.aspect[2] > 0
        /\ renderer'.size = <<window'.innerWidth, window'.innerHeight>>
        /\ UNCHANGED <<time, mousePosition, pointerTrail>>]_vars

\* A resize to the square viewport, between frames that recorded a pointer move.
C5_Witness ==
    /\ window = [innerWidth |-> 2, innerHeight |-> 2]
    /\ camera.aspect = Quot(1, 1)
    /\ renderer.size = <<2, 2>>
    /\ ticks >= 2
    /\ pointerTrail[0] # Origin

\* C6: a mousemove event changes the pointer value and nothing else of the
\* program; a tick copies the pointer value of that moment into slot 0; so every
\* slot holds a value some tick read, and a value that was replaced before any
\* tick read it is in no slot.
C6_MovesAreLossy ==
    /\ [][moves' # moves =>
            UNCHANGED <<pc, time, pointerTrail, planeMesh, window, device, camera,
                        renderer, settings, ambientLight, tweens, controllers,
                        listeners, rafPending, frameLog, drawn, ticks>>]_vars
    /\ [][ticks' # ticks => pointerTrail'[0] = mousePosition]_vars
    /\ [](pc = "running" =>
            \A i \in DOMAIN pointerTrail :
                /\ pointerTrail[i] \in recorded
                /\ pointerTrail[i] \notin (overwritten \ recorded))

\* Two moves came between two ticks: the first position is lost, the second is
\* in slot 0.
C6_Witness ==
    /\ overwritten \ recorded # {}
    /\ curSampled
    /\ ticks >= 2
    /\ pointerTrail[0] = mousePosition
    /\ mousePosition # Origin

\* The steps of a frame that the claim orders.
FrameSteps == <<"time", "trail", "uniforms", "controls", "render", "raf">>

IsFrameStep(call) == \E i \in DOMAIN FrameSteps : FrameSteps[i] = call

\* C7: every execution of render, the first included, advances FrameTime,
\* advances the trail, writes the uniforms, updates the controls, draws and
\* requests the next frame, in this order and each once.
C7_FrameOrder ==
    /\ pc = "constructed" => frameLog = <<>>
    /\ pc = "running" =>
        /\ SelectSeq(frameLog, IsFrameStep) = FrameSteps
        /\ frameLog[Len(frameLog)] = "raf"

\* A frame run by the host, after the one init() ran.
C7_Witness ==
    /\ ticks >= 2
    /\ Len(frameLog) = 8
    /\ moves > 0

\* C8: what a render call reads as the uniform time is the current FrameTime,
\* and what it reads as uPointerTrail is the trail buffer after this tick's
\* advance.
C8_UniformsCurrent ==
    /\ pc = "running" => Len(drawn) = 1
    /\ Len(drawn) = 1 =>
        /\ drawn[1].time = time
        /\ drawn[1].uPointerTrail = pointerTrail

\* A frame drew a trail whose two newest slots differ.
C8_Witness ==
    /\ ticks >= 3
    /\ Len(drawn) = 1
    /\ drawn[1].uPointerTrail[0] # Origin
    /\ drawn[1].uPointerTrail[1] # drawn[1].uPointerTrail[0]
    /\ drawn[1].time = time

\* C9: init runs the setup and the first tick once; from then on exactly one
\* frame callback is pending after every tick, and under a host that always
\* eventually runs a pending callback every tick is followed by another, up
\* to the last frame of the run.
C9_LoopGoesOn ==
    /\ [](pc = "constructed" => ticks = 0 /\ rafPending = 0)
    /\ [](pc = "running" =>
            /\ rafPending = 1
            /\ ticks >= 1
            /\ listeners = [resize |-> 1, mousemove |-> 1])
    /\ [][pc = "running" => pc' = "running"]_vars
    /\ [][pc # pc' => ticks' = 1]_vars
    /\ (pc = "running" /\ ticks < LiveTicks) ~> (ticks = LiveTicks)

\* The host has run several frames and one callback is pending.
C9_Witness ==
    /\ ticks >= 3
    /\ rafPending = 1
    /\ pc = "running"

\* The fields of the settings record the claim says the panel changes.
ClaimedFields == {"color", "ambientLightColor", "subdivisions", "spin"}

\* C10: each of color, ambientLightColor, subdivisions and spin can be changed
\* through the panel, and the scene the next tick draws reflects the value in
\* settings.
C10_PanelFields ==
    pc = "running" =>
        /\ \A f \in ClaimedFields : <<"settings", f>> \in controllers
        /\ settings.ambientLightColor # Green =>
                ambientLight[1].color = ParseColor(settings.ambientLightColor)

=============================================================================
